---- MODULE Spec2Model ----
(***************************************************************************)
(* Model of the capture orchestrator of scanner-server                     *)
(* (backend/api/scanner.py) and of the converter / recognition helpers it  *)
(* calls (backend/utils/pdf.py, backend/utils/ocr.py,                      *)
(* backend/utils/notifications.py).                                        *)
(*                                                                         *)
(* The state is the part of the file system the orchestrator touches       *)
(* (session directories, page files, transient images, documents), the     *)
(* wall clock that names sessions and documents, and one record per        *)
(* request slot holding the locals of the handler running in it.  A        *)
(* handler is split at its system calls, so that requests served by        *)
(* different threads interleave as they do in the server.                  *)
(***************************************************************************)
EXTENDS Integers, Sequences, FiniteSets, TLC

\* Bounds of the model.
MaxTime == 1
MaxPages == 3
MaxCalls == 2
MaxOps == 5
MaxImages == 2
MaxList == 3
MaxIndex == 1000
MaxFairOps == 4
MaxUpdates == 2

Times == 0..MaxTime
Calls == 1..MaxCalls

VARIABLES
    config,     \* the stored configuration: is recognition enabled, is the webhook enabled and set,
                \* and which sections config.json holds
    clock,      \* the second time.strftime("%Y%m%d_%H%M%S") currently formats
    sessions,   \* the timestamps T whose directory temp/session_T exists
    pages,      \* pages[T]: the indices N whose file session_T/page_NNN.jpg exists
    tempImgs,   \* the timestamps T whose transient image temp/scan_T.jpg exists
    docs,       \* docs[<<prefix, T>>]: the document at {storage}/prefix_T.pdf
    call,       \* call[c]: the handler running in request slot c and its locals
    ret,        \* the invocation that returned in the last step, with its result
    succ,       \* history: succ[T] counts the successful page scans since session_T was created
    destroyed,  \* history: the session ids a successful finish has removed
    ops,        \* history: the number of requests started so far
    util        \* the last direct call of a helper function: its name, arguments and result

vars == <<config, clock, sessions, pages, tempImgs, docs, call, ret, succ, destroyed, ops, util>>

----------------------------------------------------------------------------
\* Documents and results

DocPaths == {"scan", "multi_page"} \X Times

NoDoc == [kind |-> "absent", n |-> 0]

NoPath == <<"none", 0>>

\* The dictionaries the handlers return, with every key the four handlers use.
NoResult ==
    [returned |-> FALSE, success |-> FALSE, error |-> "", details |-> FALSE,
     file_path |-> NoPath, file_type |-> "", page_number |-> 0,
     total_pages |-> 0, page_count |-> 0, discord_notification |-> FALSE,
     session_id |-> 0]

Failure(msg, withDetails) ==
    [NoResult EXCEPT !.returned = TRUE, !.error = msg, !.details = withDetails]

IdleCall ==
    [op |-> "none", pc |-> "idle", sid |-> 0, ts |-> 0, page_num |-> 0,
     pages |-> {}, ocr |-> FALSE, discord |-> FALSE, pdf_type |-> "",
     notified |-> FALSE,
     scanned |-> 0,    \* history: succ of the session when its directory was removed
     effects |-> {},   \* history: what this invocation did to the outside
     obs |-> {},       \* history: what this invocation observed
     result |-> NoResult]

\* load_config returns what config.json holds, without filling in the
\* sections it lacks (config.py 40-50): a file without "discord" or without
\* "storage" is a configuration the handlers can be given.
Configs ==
    {cfg \in [ocr : BOOLEAN, discord : BOOLEAN,
              sections : {"all", "no_discord", "no_storage"}] :
        /\ cfg.sections # "all" => ~cfg.discord
        /\ cfg.sections = "no_storage" => ~cfg.ocr}

\* No helper function has been called directly.
NoUtil == [fn |-> "none", arg |-> <<>>, out |-> <<>>]

Running(c) == call[c].pc # "idle"

\* The invocation in slot c goes on with the locals rec.
Continue(c, rec) ==
    /\ call' = [call EXCEPT ![c] = rec]
    /\ ret' = IdleCall

\* The invocation in slot c, with the locals rec, returns res: the slot is
\* free again, and ret holds the invocation for the one state in which the
\* file system is as the invocation left it.
Return(c, rec, res) ==
    /\ call' = [call EXCEPT ![c] = IdleCall]
    /\ ret' = [rec EXCEPT !.pc = "returned", !.result = res]

\* The invocation in slot c, with the locals rec, ends with an exception no
\* except clause of the handler catches: its caller gets no result.
Raise(c, rec) ==
    /\ call' = [call EXCEPT ![c] = IdleCall]
    /\ ret' = [rec EXCEPT !.pc = "raised"]

Returned(name) == ret.pc = "returned" /\ ret.op = name

\* The record of a request that starts now.
NewCall(name) == [IdleCall EXCEPT !.op = name]

\* Page scans of session sid that have passed the existence check and not returned.
PageCallsInFlight(sid) ==
    {c \in Calls : call[c].op = "page" /\ Running(c) /\ call[c].sid = sid}

----------------------------------------------------------------------------
Init ==
    /\ config \in Configs
    /\ clock = 0
    /\ sessions = {}
    /\ pages = [t \in Times |-> {}]
    /\ tempImgs = {}
    /\ docs = [p \in DocPaths |-> NoDoc]
    /\ call = [c \in Calls |-> IdleCall]
    /\ ret = IdleCall
    /\ succ = [t \in Times |-> 0]
    /\ destroyed = {}
    /\ ops = 0
    /\ util = NoUtil

\* The wall clock reaches the next second.
Tick ==
    /\ clock < MaxTime
    /\ clock' = clock + 1
    /\ ret' = IdleCall
    /\ UNCHANGED <<util, config, sessions, pages, tempImgs, docs, call, succ, destroyed, ops>>

\* A request is served in the lowest free slot.
CanBegin(c) ==
    /\ call[c].pc = "idle"
    /\ \A d \in Calls : d < c => call[d].pc # "idle"
    /\ ops < MaxOps

----------------------------------------------------------------------------
\* start_multi_page_session

\* Lines 113-116: the session is named by the current second and its
\* directory made, or kept when it exists (os.makedirs(exist_ok=True)).
makedirs(dirs, t) == dirs \cup {t}

\* config["storage"] (lines 15, 110, 128, 195) is read before any try block.
StorageConfigured(cfg) == cfg.sections # "no_storage"

\* config["discord"] (lines 80, 247) is read inside the try block.
DiscordConfigured(cfg) == cfg.sections # "no_discord"

\* The function has no try block: a KeyError of line 110 reaches the caller.
start_multi_page_session(c) ==
    /\ CanBegin(c)
    /\ ops' = ops + 1
    /\ IF StorageConfigured(config)
         THEN /\ sessions' = makedirs(sessions, clock)
              /\ Return(c,
                    [NewCall("start") EXCEPT !.sid = clock, !.ts = clock,
                        !.effects = {"mkdir"},
                        !.obs = (IF clock \in sessions THEN {"existed"} ELSE {})
                                \cup (IF pages[clock] # {} THEN {"had_pages"} ELSE {})
                                \cup (IF clock \in destroyed THEN {"after_destroy"} ELSE {})],
                    [NoResult EXCEPT !.returned = TRUE, !.success = TRUE,
                        !.session_id = clock])
         ELSE /\ sessions' = sessions
              /\ Raise(c, [NewCall("start") EXCEPT !.obs = {"config_error"}])
    /\ UNCHANGED <<util, config, clock, pages, tempImgs, docs, succ, destroyed>>

----------------------------------------------------------------------------
\* scan_page_for_session

\* Lines 132 and 199: os.path.exists(session_dir)
SessionExistsWrong(dirs, sid) == TRUE
SessionExists(dirs, sid) == sid \in dirs

\* Line 140: page_num = len(existing_pages) + 1
NextPageNumWrong(existing) == Cardinality(existing)
NextPageNum(existing) == Cardinality(existing) + 1

\* Lines 126-136: the session directory is looked up.
PageBegin(c, sid) ==
    /\ CanBegin(c)
    /\ Cardinality(pages[sid]) + Cardinality(PageCallsInFlight(sid)) < MaxPages
    /\ ops' = ops + 1
    /\ LET rec == [NewCall("page") EXCEPT !.sid = sid,
                      !.obs = (IF sid \in destroyed THEN {"after_destroy"} ELSE {})
                              \cup (IF sid \in sessions THEN {} ELSE {"not_found"})]
       IN  IF ~StorageConfigured(config)
             THEN Raise(c, [NewCall("page") EXCEPT !.sid = sid, !.obs = {"config_error"}])
           ELSE IF SessionExists(sessions, sid)
             THEN Continue(c, [rec EXCEPT !.pc = "sp_count"])
             ELSE Return(c, rec, Failure("Session not found", FALSE))
    /\ UNCHANGED <<util, config, clock, sessions, pages, tempImgs, docs, succ, destroyed>>

\* Lines 138-143: the existing page files are counted.
PageCount(c) ==
    /\ call[c].pc = "sp_count"
    /\ Continue(c, [call[c] EXCEPT !.page_num = NextPageNum(pages[call[c].sid]),
                                   !.pc = "sp_scan"])
    /\ UNCHANGED <<util, config, clock, sessions, pages, tempImgs, docs, succ, destroyed, ops>>

\* Line 162: hp-scan runs; it writes page_{page_num} when the acquisition
\* works and the directory is still there.
PageScanHangs(c, acquired) ==
    /\ call[c].pc = "sp_scan"
    /\ UNCHANGED vars
PageScan(c, acquired) ==
    /\ call[c].pc = "sp_scan"
    /\ LET sid == call[c].sid
           written == acquired /\ sid \in sessions
       IN  /\ pages' = IF written
                         THEN [pages EXCEPT ![sid] = @ \cup {call[c].page_num}]
                         ELSE pages
           /\ Continue(c, [call[c] EXCEPT
                  !.pc = "sp_verify",
                  !.effects = @ \cup {"scan"} \cup (IF written THEN {"page"} ELSE {}),
                  !.obs = @ \cup (IF written /\ call[c].page_num \in pages[sid]
                                    THEN {"overwrote"} ELSE {})])
    /\ UNCHANGED <<util, config, clock, sessions, tempImgs, docs, succ, destroyed, ops>>

\* Lines 46 and 164: os.path.exists of the file hp-scan was told to write.
OutputExistsWrong(files, f) == TRUE
OutputExists(files, f) == f \in files

\* Lines 164-183: the page file is looked up and the result returned.
PageVerify(c) ==
    /\ call[c].pc = "sp_verify"
    /\ LET sid == call[c].sid
           rec == [call[c] EXCEPT !.obs = @ \cup
                      (IF call[c].page_num \in pages[sid] THEN {} ELSE {"no_output"})]
       IN  IF OutputExists(pages[sid], call[c].page_num)
             THEN /\ Return(c, rec,
                        [NoResult EXCEPT !.returned = TRUE, !.success = TRUE,
                            !.page_number = call[c].page_num,
                            !.total_pages = Cardinality(pages[sid])])
                  /\ succ' = [succ EXCEPT ![sid] = @ + 1]
             ELSE /\ Return(c, rec, Failure("Scan failed", TRUE))
                  /\ succ' = succ
    /\ UNCHANGED <<util, config, clock, sessions, pages, tempImgs, docs, destroyed, ops>>

----------------------------------------------------------------------------
\* The converter, recognition and notification helpers.  Each takes what it
\* finds on disk and the outcome of the library or tool it runs, and gives
\* the dictionary's "success" and whether the output file was written.

\* ocr.process_image (22-85): success needs the input image, exit status 0
\* and the output file; a failing ocrmypdf leaves no output.  "ran" tells
\* whether ocrmypdf was started.
process_imageWrong(imageExists, toolOk) ==
    [success |-> imageExists /\ toolOk,
     error |-> IF imageExists /\ toolOk THEN "" ELSE "OCR processing failed",
     ran |-> TRUE, written |-> imageExists /\ toolOk]
process_image(imageExists, toolOk) ==
    IF ~imageExists
      THEN [success |-> FALSE, error |-> "Input image not found",
            ran |-> FALSE, written |-> FALSE]
    ELSE [success |-> toolOk, error |-> IF toolOk THEN "" ELSE "OCR processing failed",
          ran |-> TRUE, written |-> toolOk]

\* pdf.convert_image_to_pdf (22-58): an exception of Image.open/save is
\* caught and reported as success=False; image.save without save_all writes
\* one page.
convert_image_to_pdf(imageExists, saveOk) ==
    IF ~imageExists
      THEN [success |-> FALSE, error |-> "Input image not found",
            written |-> FALSE, pages |-> 0]
    ELSE [success |-> saveOk, error |-> IF saveOk THEN "" ELSE "str(e)",
          written |-> saveOk, pages |-> IF saveOk THEN 1 ELSE 0]

\* The indices of a list whose path is not on disk.
Missing(image_paths, existing) ==
    {i \in 1..Len(image_paths) : image_paths[i] \notin existing}

\* pdf.combine_images_to_pdf (72-132), given the list of paths, the paths on
\* disk and whether Pillow opens every image and saves the document.
\* "opening" tells whether the loop of lines 91-102 was entered, "pages" is
\* the images of the document written, in page order.
combine_images_to_pdfWrong(image_paths, existing, saveOk) ==
    [success |-> saveOk, error |-> "", opening |-> TRUE, written |-> FALSE,
     page_count |-> IF saveOk THEN Len(image_paths) ELSE 0, pages |-> <<>>]
combine_images_to_pdfLazy(image_paths, existing, saveOk) ==
    IF image_paths = <<>>
      THEN [success |-> FALSE, error |-> "No images provided", opening |-> FALSE,
            written |-> FALSE, page_count |-> 0, pages |-> <<>>]
    ELSE IF Missing(image_paths, existing) # {}
      THEN [success |-> FALSE, error |-> "Image not found",
            opening |-> 1 \notin Missing(image_paths, existing),
            written |-> FALSE, page_count |-> 0, pages |-> <<>>]
    ELSE [success |-> saveOk, error |-> IF saveOk THEN "" ELSE "str(e)",
          opening |-> TRUE, written |-> saveOk,
          page_count |-> IF saveOk THEN Len(image_paths) ELSE 0,
          pages |-> IF saveOk THEN image_paths ELSE <<>>]
combine_images_to_pdfEmptyOk(image_paths, existing, saveOk) ==
    IF Missing(image_paths, existing) # {}
      THEN [success |-> FALSE, error |-> "Image not found", opening |-> FALSE,
            written |-> FALSE, page_count |-> 0, pages |-> <<>>]
    ELSE [success |-> saveOk, error |-> IF saveOk THEN "" ELSE "str(e)",
          opening |-> TRUE, written |-> saveOk,
          page_count |-> IF saveOk THEN Len(image_paths) ELSE 0,
          pages |-> IF saveOk THEN image_paths ELSE <<>>]
combine_images_to_pdfFirstOnly(image_paths, existing, saveOk) ==
    IF image_paths = <<>>
      THEN [success |-> FALSE, error |-> "No images provided", opening |-> FALSE,
            written |-> FALSE, page_count |-> 0, pages |-> <<>>]
    ELSE IF Missing(image_paths, existing) # {}
      THEN [success |-> FALSE, error |-> "Image not found", opening |-> FALSE,
            written |-> FALSE, page_count |-> 0, pages |-> <<>>]
    ELSE [success |-> saveOk, error |-> IF saveOk THEN "" ELSE "str(e)",
          opening |-> TRUE, written |-> saveOk,
          page_count |-> IF saveOk THEN Len(image_paths) ELSE 0,
          pages |-> IF saveOk THEN <<image_paths[1]>> ELSE <<>>]
combine_images_to_pdf(image_paths, existing, saveOk) ==
    \* lines 73-77
    IF image_paths = <<>>
      THEN [success |-> FALSE, error |-> "No images provided", opening |-> FALSE,
            written |-> FALSE, page_count |-> 0, pages |-> <<>>]
    \* lines 79-85: every path is looked up before any image is opened
    ELSE IF Missing(image_paths, existing) # {}
      THEN [success |-> FALSE, error |-> "Image not found", opening |-> FALSE,
            written |-> FALSE, page_count |-> 0, pages |-> <<>>]
    \* lines 89-125: images[0].save(..., save_all=True, append_images=images[1:])
    ELSE [success |-> saveOk, error |-> IF saveOk THEN "" ELSE "str(e)",
          opening |-> TRUE, written |-> saveOk,
          page_count |-> IF saveOk THEN Len(image_paths) ELSE 0,
          pages |-> IF saveOk THEN image_paths ELSE <<>>]

\* What one run of pdftk from merge_pdfs can do: how subprocess.run ends
\* (exit status 0, another status, TimeoutExpired after 60 s, another
\* exception) and whether the output file is there afterwards.
MergeRuns == [exit : {"zero", "nonzero", "timeout", "error"}, output : BOOLEAN]

\* pdf.merge_pdfs (146-199).
merge_pdfsWrong(pdf_paths, existing, run) ==
    IF pdf_paths = <<>>
      THEN [success |-> FALSE, error |-> "No PDFs provided", ran |-> FALSE,
            written |-> FALSE]
    ELSE IF Missing(pdf_paths, existing) # {}
      THEN [success |-> FALSE, error |-> "PDF not found", ran |-> FALSE,
            written |-> FALSE]
    ELSE IF run.exit = "zero" /\ run.output
      THEN [success |-> TRUE, error |-> "", ran |-> TRUE, written |-> TRUE]
    ELSE [success |-> FALSE, error |-> "PDF merge failed", ran |-> TRUE,
          written |-> run.output]
merge_pdfs(pdf_paths, existing, run) ==
    IF pdf_paths = <<>>
      THEN [success |-> FALSE, error |-> "No PDFs provided", ran |-> FALSE,
            written |-> FALSE]
    ELSE IF Missing(pdf_paths, existing) # {}
      THEN [success |-> FALSE, error |-> "PDF not found", ran |-> FALSE,
            written |-> FALSE]
    ELSE IF run.exit = "timeout"
      THEN [success |-> FALSE, error |-> "PDF merge timed out", ran |-> TRUE,
            written |-> run.output]
    ELSE IF run.exit = "error"
      THEN [success |-> FALSE, error |-> "str(e)", ran |-> TRUE,
            written |-> run.output]
    ELSE IF run.exit = "zero" /\ run.output
      THEN [success |-> TRUE, error |-> "", ran |-> TRUE, written |-> TRUE]
    ELSE [success |-> FALSE, error |-> "PDF merge failed", ran |-> TRUE,
          written |-> run.output]

\* What one run of ocrmypdf from make_pdf_searchable can do: how
\* subprocess.run ends (exit status 0, another status, TimeoutExpired after
\* 300 s, another exception such as a missing executable), whether the tool
\* left a file at {pdf}.temp.pdf, and whether os.replace works.
RecognitionRuns ==
    [exit : {"zero", "nonzero", "timeout", "error"}, temp : BOOLEAN, replaceOk : BOOLEAN]

\* ocr.make_pdf_searchable (98-173), given the document pdf at pdf_path:
\* the document and whether {pdf}.temp.pdf exists when the function returns.
make_pdf_searchableWrong(pdf, run) ==
    IF pdf.kind = "absent"
      THEN [success |-> FALSE, error |-> "PDF file not found", ran |-> FALSE,
            replaced |-> FALSE, pdf |-> pdf, temp |-> FALSE]
    ELSE IF run.exit = "zero" /\ run.temp /\ run.replaceOk
      THEN [success |-> TRUE, error |-> "", ran |-> TRUE, replaced |-> TRUE,
            pdf |-> [pdf EXCEPT !.kind = "searchable"], temp |-> FALSE]
    ELSE [success |-> FALSE, error |-> "Failed to make PDF searchable", ran |-> TRUE,
          replaced |-> FALSE, pdf |-> pdf,
          temp |-> run.temp /\ run.exit = "timeout"]
make_pdf_searchable(pdf, run) ==
    IF pdf.kind = "absent"
      \* lines 99-103: nothing is run
      THEN [success |-> FALSE, error |-> "PDF file not found", ran |-> FALSE,
            replaced |-> FALSE, pdf |-> pdf, temp |-> FALSE]
    ELSE IF run.exit = "zero" /\ run.temp
      \* lines 138-145: os.replace moves the temporary file over the document;
      \* when it raises, line 168 removes the temporary file
      THEN IF run.replaceOk
             THEN [success |-> TRUE, error |-> "", ran |-> TRUE, replaced |-> TRUE,
                   pdf |-> [pdf EXCEPT !.kind = "searchable"], temp |-> FALSE]
             ELSE [success |-> FALSE, error |-> "str(e)", ran |-> TRUE,
                   replaced |-> FALSE, pdf |-> pdf, temp |-> FALSE]
    \* lines 146-156, 158-165, 166-173: each removes the temporary file it finds
    ELSE [success |-> FALSE,
          error |-> IF run.exit = "timeout" THEN "OCR processing timed out"
                    ELSE IF run.exit = "error" THEN "str(e)"
                    ELSE "Failed to make PDF searchable",
          ran |-> TRUE, replaced |-> FALSE, pdf |-> pdf, temp |-> FALSE]

\* notifications.send_to_discord: True only for an answered request with
\* status 200 or 204; every exception is caught.
send_to_discordWrong(webhookSet, delivered) == webhookSet
send_to_discord(webhookSet, delivered) == webhookSet /\ delivered

\* How a request to the webhook can end: the status of the answer, a
\* timeout, another requests exception, any other exception.
WebhookAnswers == {"200", "204", "404", "timeout", "request_error", "error"}

\* notifications.send_to_discord (23-75) with the number of requests.post
\* calls it makes: an empty URL is refused at lines 24-26.
send_to_discord_call(webhookSet, answer) ==
    [result |-> send_to_discord(webhookSet, answer \in {"200", "204"}),
     posts |-> IF webhookSet THEN 1 ELSE 0]

\* notifications.test_discord_webhook (88-138).
test_discord_webhookWrong(webhookSet, answer) ==
    IF answer \in {"200", "204"}
      THEN [success |-> TRUE, error |-> "", posts |-> 1]
    ELSE [success |-> FALSE, error |-> "Webhook returned status", posts |-> 1]
test_discord_webhook(webhookSet, answer) ==
    IF ~webhookSet
      THEN [success |-> FALSE, error |-> "Webhook URL is empty", posts |-> 0]
    ELSE IF answer \in {"200", "204"}
      THEN [success |-> TRUE, error |-> "", posts |-> 1]
    ELSE [success |-> FALSE,
          error |-> IF answer = "timeout" THEN "Request timed out"
                    ELSE IF answer = "request_error" THEN "Request failed"
                    ELSE IF answer = "error" THEN "str(e)"
                    ELSE "Webhook returned status",
          posts |-> 1]

\* The notification block shared by scan_single_page (78-86) and
\* finish_multi_page_session (245-253).
Notified(rec, delivered) ==
    [rec EXCEPT !.notified = IF rec.discord THEN send_to_discord(TRUE, delivered)
                             ELSE FALSE,
                !.effects = @ \cup (IF rec.discord THEN {"notify_attempt"} ELSE {})
                              \cup (IF rec.discord /\ delivered THEN {"notify"} ELSE {})]

----------------------------------------------------------------------------
\* scan_single_page

\* Lines 13-39: configuration, timestamp and paths.
SingleBegin(c) ==
    /\ CanBegin(c)
    /\ ops' = ops + 1
    /\ IF StorageConfigured(config)
         THEN Continue(c, [NewCall("single") EXCEPT !.pc = "ss_scan", !.ts = clock,
                              !.ocr = config.ocr, !.discord = config.discord])
         ELSE Raise(c, [NewCall("single") EXCEPT !.obs = {"config_error"}])
    /\ UNCHANGED <<util, config, clock, sessions, pages, tempImgs, docs, succ, destroyed>>

\* Line 44: hp-scan runs and writes temp/scan_{ts}.jpg when the acquisition works.
SingleScan(c, acquired) ==
    /\ call[c].pc = "ss_scan"
    /\ tempImgs' = IF acquired THEN tempImgs \cup {call[c].ts} ELSE tempImgs
    /\ Continue(c, [call[c] EXCEPT !.pc = "ss_verify",
                       !.effects = @ \cup {"scan"},
                       !.obs = @ \cup (IF acquired THEN {"acquired"} ELSE {})])
    /\ UNCHANGED <<util, config, clock, sessions, pages, docs, succ, destroyed, ops>>

\* Lines 46-55: the transient image is looked up.
SingleVerify(c) ==
    /\ call[c].pc = "ss_verify"
    /\ LET rec == [call[c] EXCEPT !.obs = @ \cup
                      (IF call[c].ts \in tempImgs THEN {} ELSE {"no_output"})]
       IN  IF OutputExists(tempImgs, call[c].ts)
             THEN Continue(c, [rec EXCEPT !.pc = "ss_convert"])
             ELSE Return(c, rec, Failure("Scan failed", TRUE))
    /\ UNCHANGED <<util, config, clock, sessions, pages, tempImgs, docs, succ, destroyed, ops>>

\* Lines 57-76: recognition, with the fall back to the plain conversion.
\* "wrote" is the kind of document the stage left at output_pdf, "none" when
\* it wrote nothing.
SingleRecognizeConvert(ocr, img, ocrOk, saveOk) ==
    LET o == process_image(img, ocrOk)
        v == convert_image_to_pdf(img, saveOk)
        plain == [wrote |-> IF v.written THEN "plain" ELSE "none",
                  convert_failed |-> ~v.success]
    IN  IF ocr
          THEN IF o.success
                 THEN [pdf_type |-> "Searchable PDF", wrote |-> "searchable",
                       ocr_failed |-> FALSE, convert_failed |-> FALSE]
                 ELSE [pdf_type |-> "PDF (OCR failed)", wrote |-> plain.wrote,
                       ocr_failed |-> TRUE, convert_failed |-> plain.convert_failed]
          ELSE [pdf_type |-> "PDF", wrote |-> plain.wrote,
                ocr_failed |-> FALSE, convert_failed |-> plain.convert_failed]

\* What a stage that reports st adds to the observations of an invocation
\* whose output path held the document old.
StageObs(st, old) ==
    (IF st.ocr_failed THEN {"ocr_failed"} ELSE {})
    \cup (IF st.convert_failed THEN {"convert_failed"} ELSE {})
    \cup (IF st.wrote # "none" /\ old.kind # "absent" THEN {"rewrote"} ELSE {})

SingleConvert(c, ocrOk, saveOk) ==
    /\ call[c].pc = "ss_convert"
    /\ LET ts == call[c].ts
           path == <<"scan", ts>>
           st == SingleRecognizeConvert(call[c].ocr, ts \in tempImgs, ocrOk, saveOk)
       IN  /\ docs' = IF st.wrote = "none" THEN docs
                      ELSE [docs EXCEPT ![path] = [kind |-> st.wrote, n |-> 1]]
           /\ Continue(c, [call[c] EXCEPT
                !.pc = "ss_notify",
                !.pdf_type = st.pdf_type,
                !.effects = @ \cup (IF st.wrote # "none" THEN {"doc"} ELSE {}),
                !.obs = @ \cup StageObs(st, docs[path])])
    /\ UNCHANGED <<util, config, clock, sessions, pages, tempImgs, succ, destroyed, ops>>

\* Lines 78-86; a KeyError of line 80 is caught at line 99, which returns
\* without reaching the clean-up of lines 88-90.
SingleNotify(c, delivered) ==
    /\ call[c].pc = "ss_notify"
    /\ IF DiscordConfigured(config)
         THEN Continue(c, [Notified(call[c], delivered) EXCEPT !.pc = "ss_cleanup"])
         ELSE Return(c, [call[c] EXCEPT !.obs = @ \cup {"config_error"}],
                     Failure("KeyError", FALSE))
    /\ UNCHANGED <<util, config, clock, sessions, pages, tempImgs, docs, succ, destroyed, ops>>

\* Lines 88-97: the transient image is removed and the result returned.
SingleCleanup(c) ==
    /\ call[c].pc = "ss_cleanup"
    /\ tempImgs' = tempImgs \ {call[c].ts}
    /\ Return(c, call[c],
          [NoResult EXCEPT !.returned = TRUE, !.success = TRUE,
              !.file_path = <<"scan", call[c].ts>>,
              !.file_type = call[c].pdf_type,
              !.discord_notification = call[c].notified])
    /\ UNCHANGED <<util, config, clock, sessions, pages, docs, succ, destroyed, ops>>

----------------------------------------------------------------------------
\* finish_multi_page_session

\* Lines 194-203: the session directory is looked up.
FinishBegin(c, sid) ==
    /\ CanBegin(c)
    /\ ops' = ops + 1
    /\ LET rec == [NewCall("finish") EXCEPT !.sid = sid, !.ocr = config.ocr,
                      !.discord = config.discord,
                      !.obs = (IF sid \in destroyed THEN {"after_destroy"} ELSE {})
                              \cup (IF sid \in sessions THEN {} ELSE {"not_found"})]
       IN  IF ~StorageConfigured(config)
             THEN Raise(c, [NewCall("finish") EXCEPT !.sid = sid, !.obs = {"config_error"}])
           ELSE IF SessionExists(sessions, sid)
             THEN Continue(c, [rec EXCEPT !.pc = "fin_list"])
             ELSE Return(c, rec, Failure("Session not found", FALSE))
    /\ UNCHANGED <<util, config, clock, sessions, pages, tempImgs, docs, succ, destroyed>>

\* Line 207: "if not pages".
NoPagesWrong(listed) == FALSE
NoPages(listed) == listed = {}

\* Lines 205-215: the page files are listed; the output path is named.
FinishList(c) ==
    /\ call[c].pc = "fin_list"
    /\ LET listed == pages[call[c].sid]
           rec == [call[c] EXCEPT !.pages = listed, !.ts = clock,
                      !.obs = @ \cup (IF listed = {} THEN {"empty"} ELSE {})
                                \cup (IF call[c].sid \in sessions THEN {"dir_kept"} ELSE {})]
       IN  IF NoPages(listed)
             THEN Return(c, rec, Failure("No pages found in session", FALSE))
             ELSE Continue(c, [rec EXCEPT !.pc = "fin_assemble"])
    /\ UNCHANGED <<util, config, clock, sessions, pages, tempImgs, docs, succ, destroyed, ops>>

\* Lines 219-230: a session of one page; the page goes through
\* process_image or through convert_image_to_pdf.
FinishOnePage(ocr, img, ocrOk, saveOk) ==
    LET o == process_image(img, ocrOk)
        v == convert_image_to_pdf(img, saveOk)
    IN  IF ocr
          THEN [pdf_type |-> IF o.success THEN "Searchable PDF" ELSE "PDF (OCR failed)",
                wrote |-> IF o.written THEN "searchable" ELSE "none",
                ocr_failed |-> ~o.success, convert_failed |-> FALSE]
          ELSE [pdf_type |-> "PDF", wrote |-> IF v.written THEN "plain" ELSE "none",
                ocr_failed |-> FALSE, convert_failed |-> ~v.success]

\* The decimal digits of n, most significant first.
RECURSIVE Digits(_)
Digits(n) == IF n < 10 THEN <<n>> ELSE Digits(n \div 10) \o <<n % 10>>

\* f"{page_num:03d}" (line 143): the digits, padded with zeros to three at least.
Format03d(n) ==
    LET d == Digits(n)
    IN  IF Len(d) >= 3 THEN d ELSE [i \in 1..(3 - Len(d)) |-> 0] \o d

\* The characters of "page_{NNN}.jpg" in which two page names can differ,
\* as code points: the digits, then the full stop of ".jpg".
PageName(n) == [i \in 1..Len(Format03d(n)) |-> 48 + Format03d(n)[i]] \o <<46>>

\* The order of Python strings: by the first differing code point, a proper
\* prefix first.
LexLess(a, b) ==
    \E k \in 1..(Len(a) + 1) :
        /\ k <= Len(b)
        /\ \A i \in 1..(k - 1) : a[i] = b[i]
        /\ k <= Len(a) => a[k] < b[k]

\* sorted(list(session_dir.glob("page_*.jpg"))) (line 206), the page files
\* given by their indices.
RECURSIVE sorted(_)
sorted(S) ==
    IF S = {} THEN <<>>
    ELSE LET m == CHOOSE x \in S :
                     \A y \in S \ {x} : LexLess(PageName(x), PageName(y))
         IN  <<m>> \o sorted(S \ {m})

\* Lines 231-243, up to the recognition of the combined document.
FinishCombine(listed, existing, saveOk) ==
    LET m == combine_images_to_pdf(sorted(listed), existing, saveOk)
    IN  [pdf_type |-> "PDF", wrote |-> IF m.written THEN "plain" ELSE "none",
         ocr_failed |-> FALSE, convert_failed |-> ~m.success,
         page_count |-> m.page_count]

\* Lines 219-243, up to the recognition of a combined document.
FinishAssemble(c, ocrOk, saveOk) ==
    /\ call[c].pc = "fin_assemble"
    /\ LET sid == call[c].sid
           listed == call[c].pages
           path == <<"multi_page", call[c].ts>>
           one == Cardinality(listed) = 1
           m == FinishCombine(listed, pages[sid], saveOk)
           st == IF one
                   THEN FinishOnePage(call[c].ocr, listed \subseteq pages[sid], ocrOk, saveOk)
                   ELSE [x \in DOMAIN m \ {"page_count"} |-> m[x]]
       IN  /\ docs' = IF st.wrote = "none" THEN docs
                      ELSE [docs EXCEPT ![path] =
                              [kind |-> st.wrote,
                               n |-> IF one THEN 1 ELSE m.page_count]]
           /\ Continue(c, [call[c] EXCEPT
                !.pc = IF ~one /\ ~m.convert_failed /\ call[c].ocr
                         THEN "fin_recognize" ELSE "fin_notify",
                !.pdf_type = st.pdf_type,
                !.effects = @ \cup (IF st.wrote # "none" THEN {"doc"} ELSE {}),
                !.obs = @ \cup StageObs(st, docs[path])])
    /\ UNCHANGED <<util, config, clock, sessions, pages, tempImgs, succ, destroyed, ops>>

\* Lines 235-241: the combined document is made searchable in place.
FinishRecognize(c, run) ==
    /\ call[c].pc = "fin_recognize"
    /\ LET path == <<"multi_page", call[c].ts>>
           r == make_pdf_searchable(docs[path], run)
       IN  /\ docs' = [docs EXCEPT ![path] = r.pdf]
           /\ Continue(c, [call[c] EXCEPT
                !.pc = "fin_notify",
                !.pdf_type = IF r.success THEN "Searchable PDF"
                             ELSE "PDF (not searchable)",
                !.obs = @ \cup (IF r.success THEN {} ELSE {"ocr_failed"})
                          \cup (IF run.exit = "zero" /\ run.temp THEN {"tool_ok"} ELSE {})
                          \cup (IF r.replaced THEN {"replaced"} ELSE {})
                          \cup (IF ~r.success /\ run.temp THEN {"temp_written"} ELSE {})
                          \cup (IF r.temp THEN {"temp_left"} ELSE {})])
    /\ UNCHANGED <<util, config, clock, sessions, pages, tempImgs, succ, destroyed, ops>>

\* Lines 245-253; a KeyError of line 247 is caught at line 267, which
\* returns without reaching the rmtree of line 257.
FinishNotifyWrong(c, delivered) ==
    /\ call[c].pc = "fin_notify"
    /\ sessions' = sessions \ {call[c].sid}
    /\ pages' = [pages EXCEPT ![call[c].sid] = {}]
    /\ Continue(c, [Notified(call[c], delivered) EXCEPT !.pc = "fin_cleanup"])
    /\ UNCHANGED <<util, config, clock, tempImgs, docs, succ, destroyed, ops>>
FinishNotify(c, delivered) ==
    /\ call[c].pc = "fin_notify"
    /\ IF DiscordConfigured(config)
         THEN Continue(c, [Notified(call[c], delivered) EXCEPT !.pc = "fin_cleanup"])
         ELSE Return(c, [call[c] EXCEPT !.obs = @ \cup {"config_error"}],
                     Failure("KeyError", FALSE))
    /\ UNCHANGED <<util, config, clock, sessions, pages, tempImgs, docs, succ, destroyed, ops>>

\* Line 257: shutil.rmtree(session_dir) removes the directory with every
\* page in it.
rmtreeWrong(dirs, sid) == dirs
rmtree(dirs, sid) == dirs \ {sid}

\* Lines 255-272: rmtree, then the result; rmtree raises when the directory
\* is gone, and the handler's except clause turns that into a failure.
FinishCleanup(c) ==
    /\ call[c].pc = "fin_cleanup"
    /\ LET sid == call[c].sid
       IN  IF sid \in sessions
             THEN /\ sessions' = rmtree(sessions, sid)
                  /\ pages' = [pages EXCEPT ![sid] =
                                  IF sid \in sessions' THEN @ ELSE {}]
                  /\ succ' = [succ EXCEPT ![sid] = 0]
                  /\ destroyed' = destroyed \cup {sid}
                  /\ Return(c,
                       [call[c] EXCEPT !.effects = @ \cup {"rmtree"},
                                       !.scanned = succ[sid]],
                       [NoResult EXCEPT !.returned = TRUE, !.success = TRUE,
                           !.file_path = <<"multi_page", call[c].ts>>,
                           !.file_type = call[c].pdf_type,
                           !.page_count = Cardinality(call[c].pages),
                           !.discord_notification = call[c].notified])
             ELSE /\ Return(c, call[c], Failure("FileNotFoundError", FALSE))
                  /\ UNCHANGED <<sessions, pages, succ, destroyed>>
    /\ UNCHANGED <<util, config, clock, tempImgs, docs, ops>>

----------------------------------------------------------------------------
SingleStep(c) ==
    \/ \E acquired \in BOOLEAN : SingleScan(c, acquired)
    \/ SingleVerify(c)
    \/ \E ocrOk, saveOk \in BOOLEAN : SingleConvert(c, ocrOk, saveOk)
    \/ \E delivered \in BOOLEAN : SingleNotify(c, delivered)
    \/ SingleCleanup(c)

SessionBegin(c) ==
    \/ start_multi_page_session(c)
    \/ \E sid \in Times : PageBegin(c, sid)
    \/ \E sid \in Times : FinishBegin(c, sid)

SessionStep(c) ==
    \/ PageCount(c)
    \/ \E acquired \in BOOLEAN : PageScan(c, acquired)
    \/ PageVerify(c)
    \/ FinishList(c)
    \/ \E ocrOk, saveOk \in BOOLEAN : FinishAssemble(c, ocrOk, saveOk)
    \/ \E run \in RecognitionRuns : FinishRecognize(c, run)
    \/ \E delivered \in BOOLEAN : FinishNotify(c, delivered)
    \/ FinishCleanup(c)

\* Session requests (start, scan page, finish) served concurrently, one per slot.
Next ==
    \/ Tick
    \/ \E c \in Calls : SessionBegin(c) \/ SessionStep(c)

Spec == Init /\ [][Next]_vars

\* Single-page requests served concurrently.  They share no path with the
\* session requests: temp/scan_T.jpg and scan_T.pdf against temp/session_T
\* and multi_page_T.pdf.
SingleNext ==
    \/ Tick
    \/ \E c \in Calls : SingleBegin(c) \/ SingleStep(c)

SingleSpec == Init /\ [][SingleNext]_vars

\* Requests of all four kinds arriving one after the other: a request begins
\* when no other is running.
Quiet == \A c \in Calls : call[c].pc = "idle"

SeqSingleBegin(c) == Quiet /\ SingleBegin(c)
SeqStartSession(c) == Quiet /\ start_multi_page_session(c)
SeqPageBegin(c, sid) == Quiet /\ PageBegin(c, sid)
SeqFinishBegin(c, sid) == Quiet /\ FinishBegin(c, sid)

SeqNext ==
    \/ Tick
    \/ \E c \in Calls :
         \/ SeqSingleBegin(c)
         \/ SeqStartSession(c)
         \/ \E sid \in Times : SeqPageBegin(c, sid)
         \/ \E sid \in Times : SeqFinishBegin(c, sid)
         \/ SingleStep(c)
         \/ SessionStep(c)

SeqSpec == Init /\ [][SeqNext]_vars

\* Session requests served concurrently, except that the page scans of one
\* session do not overlap each other: a scan_page_for_session begins when
\* no other is running on that session.
AlonePageBegin(c, sid) == PageCallsInFlight(sid) = {} /\ PageBegin(c, sid)

PageSeqNext ==
    \/ Tick
    \/ \E c \in Calls :
         \/ start_multi_page_session(c)
         \/ \E sid \in Times : AlonePageBegin(c, sid)
         \/ \E sid \in Times : FinishBegin(c, sid)
         \/ SessionStep(c)

PageSeqSpec == Init /\ [][PageSeqNext]_vars

\* The same requests, each served by a thread that goes on running: the
\* tools a handler waits for end (ocrmypdf after 300 s at most, the webhook
\* after 30 s), so a handler that can take its next step takes it.
SeqFairSpec ==
    SeqSpec /\ \A c \in Calls : WF_vars(SingleStep(c) \/ SessionStep(c))

\* The same threads serving MaxFairOps requests.
ShortSingleBegin(c) == ops < MaxFairOps /\ SeqSingleBegin(c)
ShortStartSession(c) == ops < MaxFairOps /\ SeqStartSession(c)
ShortPageBegin(c, sid) == ops < MaxFairOps /\ SeqPageBegin(c, sid)
ShortFinishBegin(c, sid) == ops < MaxFairOps /\ SeqFinishBegin(c, sid)

ShortNext ==
    \/ Tick
    \/ \E c \in Calls :
         \/ ShortSingleBegin(c)
         \/ ShortStartSession(c)
         \/ \E sid \in Times : ShortPageBegin(c, sid)
         \/ \E sid \in Times : ShortFinishBegin(c, sid)
         \/ SingleStep(c)
         \/ SessionStep(c)

ShortFairSpec ==
    /\ Init /\ [][ShortNext]_vars
    /\ \A c \in Calls : WF_vars(SingleStep(c) \/ SessionStep(c))

----------------------------------------------------------------------------
\* The helper functions called directly, as the tests of tests/test_utils.py
\* and tests/test_config.py call them.

\* Image and PDF paths, and the lists of them a caller can pass.
Images == 1..MaxImages

PathLists == UNION {[1..k -> Images] : k \in 0..MaxList}

\* The device locator of the hp-scan command of scan_single_page (35-39).
scan_single_page_device(protocol, ip, port) ==
    IF protocol = "escl" THEN <<"escl:https://", ip, ":", port>>
    ELSE <<"hpaio:/net/DeskJet_2700_series?ip=", ip>>

\* The device locator of the hp-scan command of scan_page_for_session (153-157).
scan_page_for_session_device(protocol, ip, port) ==
    IF protocol = "escl" THEN <<"escl:https://", ip, ":", port>>
    ELSE <<"hpaio:/net/DeskJet_2700_series?ip=", ip>>

\* The device locator of the scanimage command of
\* settings.test_scanner_connection (53-56).
test_scanner_connection_deviceWrong(protocol, ip, port) ==
    IF protocol = "hpaio" THEN <<"hpaio:/net/DeskJet_2700_series?ip=", ip>>
    ELSE <<"escl:https://", ip, ":", port>>
test_scanner_connection_device(protocol, ip, port) ==
    IF protocol = "escl" THEN <<"escl:https://", ip, ":", port>>
    ELSE <<"hpaio:/net/DeskJet_2700_series?ip=", ip>>

\* The protocol tags, addresses and ports the commands are built from; no
\* function looks at the address.
Protocols == {"escl", "hpaio", "ESCL", "airscan", ""}

Addresses == {"192.168.1.100", "", "printer.local; reboot"}

Ports == {"443", "8080"}

\* config.DEFAULT_CONFIG (12-34).
DEFAULT_CONFIG ==
    [scanner |-> [ip |-> "192.168.1.100", protocol |-> "escl", port |-> 443,
                  resolution |-> 300, mode |-> "color"],
     storage |-> [path |-> "/data/scan",
                  categories |-> <<"invoices", "receipts", "letters", "misc">>],
     ocr |-> [enabled |-> TRUE, language |-> "eng", deskew |-> TRUE, clean |-> TRUE],
     discord |-> [webhook_url |-> "", enabled |-> FALSE]]

\* What a configuration file written by a user can hold: the defaults, the
\* defaults with an optimization level, a file without its discord section.
ConfigContents ==
    {DEFAULT_CONFIG,
     [DEFAULT_CONFIG EXCEPT !.ocr = [enabled |-> FALSE, language |-> "deu",
                                     deskew |-> TRUE, clean |-> TRUE, optimize |-> 3]],
     [scanner |-> DEFAULT_CONFIG.scanner, storage |-> DEFAULT_CONFIG.storage,
      ocr |-> DEFAULT_CONFIG.ocr]}

\* A file of the configuration directory: absent, unreadable as JSON, or
\* holding a configuration.
ConfigFiles ==
    {[state |-> "absent", content |-> DEFAULT_CONFIG],
     [state |-> "corrupt", content |-> DEFAULT_CONFIG]}
    \cup {[state |-> "valid", content |-> cfg] : cfg \in ConfigContents}

\* config.load_config (40-72), given config.json, default_config.json and
\* whether the directory can be written.
load_config(config_file, default_file, writable) ==
    IF config_file.state = "valid"
      \* lines 44-49
      THEN [config |-> config_file.content, saved |-> FALSE]
    ELSE IF default_file.state = "valid"
      \* lines 55-57, 64-68: the content of default_config.json is saved and returned
      THEN IF writable THEN [config |-> default_file.content, saved |-> TRUE]
           ELSE [config |-> DEFAULT_CONFIG, saved |-> FALSE]
    ELSE IF default_file.state = "corrupt"
      \* json.load raises: lines 69-71
      THEN [config |-> DEFAULT_CONFIG, saved |-> FALSE]
    \* lines 58-68
    ELSE [config |-> DEFAULT_CONFIG, saved |-> writable]

\* JSON values as update_config meets them: a scalar, or an object that
\* maps keys to values.
Scalars == {"eng", "deu"}

Scalar(s) == [dict |-> FALSE, v |-> s, items |-> <<>>]

Dict(f) == [dict |-> TRUE, v |-> "", items |-> f]

PartialFns(K, V) == UNION {[S -> V] : S \in SUBSET K}

Leaves == {Scalar(s) : s \in Scalars}

\* The keys of a section such as "ocr" (24-29).
SubKeys == {"enabled", "language"}

Sections == {Dict(f) : f \in PartialFns(SubKeys, Leaves)}

\* Top-level keys: "ocr" holds a section or a scalar, "version" a scalar.
TopKeys == {"ocr", "version"}

JsonObjects ==
    {f \in PartialFns(TopKeys, Sections \cup Leaves) :
        "version" \in DOMAIN f => ~f["version"].dict}

\* The body of POST /api/settings/update: an object, or JSON of another kind.
RequestBodies == {Dict(f) : f \in JsonObjects} \cup {Scalar("eng")}

\* dict.update in the place of the recursion: a named key takes the value
\* of the updates whole.
update_dictWrong(d, u) ==
    [k \in DOMAIN d \cup DOMAIN u |-> IF k \in DOMAIN u THEN u[k] ELSE d[k]]

\* config.update_config.update_dict (90-96), on the items of d and u.
RECURSIVE update_dict(_, _)
update_dict(d, u) ==
    [k \in DOMAIN d \cup DOMAIN u |->
        IF k \notin DOMAIN u THEN d[k]
        ELSE IF u[k].dict /\ k \in DOMAIN d /\ d[k].dict
          \* line 93
          THEN Dict(update_dict(d[k].items, u[k].items))
          \* line 95
          ELSE u[k]]

\* config.update_config (86-100) on a config.json that holds the object
\* stored; saveOk is whether save_config (74-84) can open the file for writing.
update_config(stored, updates, saveOk) ==
    IF ~updates.dict
      \* u.items() raises AttributeError at line 91
      THEN [raised |-> TRUE, result |-> FALSE, stored |-> stored]
    ELSE IF saveOk
      THEN [raised |-> FALSE, result |-> TRUE,
            stored |-> update_dict(stored, updates.items)]
    ELSE [raised |-> FALSE, result |-> FALSE, stored |-> stored]

\* The routes of app.py (56-209, 259-267) and whether the view function
\* registered for each is the one auth_required returns.
Routes ==
    {[endpoint |-> e, wrapped |-> TRUE] :
        e \in {"index", "api_scan_single", "api_start_multi", "api_scan_page",
               "api_finish_multi", "api_printer_list", "api_print_file",
               "api_get_settings", "api_update_settings", "api_test_scanner",
               "api_test_discord", "download_file"}}
    \cup {[endpoint |-> e, wrapped |-> FALSE] :
             e \in {"nfc_single_scan", "nfc_multi_scan", "health_check"}}

\* The "oauth" section of the configuration as auth_required reads it: no
\* section, a section without "enabled", "enabled" false or true.
OAuthConfigs == {"absent", "empty", "false", "true"}

\* oauth_config.get('enabled') of line 152.
OAuthEnabled(oauth_config) == oauth_config = "true"

\* A decorator whose wrapper only looks at the configuration.
auth_requiredWrong(oauth_config, is_authenticated) ==
    [ran |-> TRUE, checked |-> OAuthEnabled(oauth_config),
     response |-> "handler"]

\* auth.auth_required.decorated_function (147-159): whether f ran, whether
\* current_user.is_authenticated was read, and what is returned.
auth_required(oauth_config, is_authenticated) ==
    IF ~OAuthEnabled(oauth_config)
      \* lines 152-153
      THEN [ran |-> TRUE, checked |-> FALSE, response |-> "handler"]
    ELSE IF ~is_authenticated
      \* lines 156-157
      THEN [ran |-> FALSE, checked |-> TRUE, response |-> "unauthorized"]
    \* line 159
    ELSE [ran |-> TRUE, checked |-> TRUE, response |-> "handler"]

\* Flask calls the view function registered for the route.
Dispatch(route, oauth_config, is_authenticated) ==
    IF route.wrapped
      THEN auth_required(oauth_config, is_authenticated)
      ELSE [ran |-> TRUE, checked |-> FALSE, response |-> "handler"]

\* A helper function is called with the arguments arg and returns out.
UtilCall(name, arg, out) ==
    /\ util' = [fn |-> name, arg |-> arg, out |-> out]
    /\ UNCHANGED <<config, clock, sessions, pages, tempImgs, docs, call, ret,
                   succ, destroyed, ops>>

Call_convert_image_to_pdf(imageExists, saveOk) ==
    /\ util = NoUtil
    /\ UtilCall("convert_image_to_pdf",
                [imageExists |-> imageExists, saveOk |-> saveOk],
                convert_image_to_pdf(imageExists, saveOk))

Call_combine_images_to_pdf(image_paths, existing, saveOk) ==
    /\ util = NoUtil
    /\ UtilCall("combine_images_to_pdf",
                [image_paths |-> image_paths, existing |-> existing, saveOk |-> saveOk],
                combine_images_to_pdf(image_paths, existing, saveOk))

Call_merge_pdfs(pdf_paths, existing, run) ==
    /\ util = NoUtil
    /\ UtilCall("merge_pdfs",
                [pdf_paths |-> pdf_paths, existing |-> existing, run |-> run],
                merge_pdfs(pdf_paths, existing, run))

Call_process_image(imageExists, toolOk) ==
    /\ util = NoUtil
    /\ UtilCall("process_image",
                [imageExists |-> imageExists, toolOk |-> toolOk],
                process_image(imageExists, toolOk))

Call_make_pdf_searchable(pdf, run) ==
    /\ util = NoUtil
    /\ UtilCall("make_pdf_searchable", [pdf |-> pdf, run |-> run],
                make_pdf_searchable(pdf, run))

Call_send_to_discord(webhookSet, answer) ==
    /\ util = NoUtil
    /\ UtilCall("send_to_discord", [webhookSet |-> webhookSet, answer |-> answer],
                send_to_discord_call(webhookSet, answer))

Call_test_discord_webhook(webhookSet, answer) ==
    /\ util = NoUtil
    /\ UtilCall("test_discord_webhook", [webhookSet |-> webhookSet, answer |-> answer],
                test_discord_webhook(webhookSet, answer))

Call_load_config(config_file, default_file, writable) ==
    /\ util = NoUtil
    /\ UtilCall("load_config",
                [config_file |-> config_file, default_file |-> default_file,
                 writable |-> writable],
                load_config(config_file, default_file, writable))

\* The three places that build a device locator, on the same configuration.
BuildDevice(protocol, ip, port) ==
    /\ util = NoUtil
    /\ UtilCall("device", [protocol |-> protocol, ip |-> ip, port |-> port],
                [single |-> scan_single_page_device(protocol, ip, port),
                 page |-> scan_page_for_session_device(protocol, ip, port),
                 test |-> test_scanner_connection_device(protocol, ip, port)])

\* finish_multi_page_session lists a session that holds the pages n and n + 1.
ListPages(n) ==
    /\ util = NoUtil
    /\ UtilCall("sorted", [pages |-> {n, n + 1}], sorted({n, n + 1}))

\* update_config is called on a config.json that holds stored.
Call_update_config(stored, updates, saveOk) ==
    /\ util = NoUtil
    /\ UtilCall("update_config",
                [stored |-> stored, updates |-> updates, saveOk |-> saveOk, calls |-> 1,
                 last |-> Scalar("")],
                update_config(stored, updates, saveOk))

\* update_config is called again, on the file the call before it left; last
\* is the updates of that call when it saved them.
Call_update_config_again(updates, saveOk) ==
    /\ util.fn = "update_config"
    /\ util.arg.calls < MaxUpdates
    /\ UtilCall("update_config",
                [stored |-> util.out.stored, updates |-> updates, saveOk |-> saveOk,
                 calls |-> util.arg.calls + 1,
                 last |-> IF util.out.result THEN util.arg.updates ELSE Scalar("")],
                update_config(util.out.stored, updates, saveOk))

\* A request for a route arrives, from a user who is logged in or not.
Request(route, oauth_config, is_authenticated) ==
    /\ util = NoUtil
    /\ UtilCall("request",
                [route |-> route, oauth_config |-> oauth_config,
                 is_authenticated |-> is_authenticated],
                Dispatch(route, oauth_config, is_authenticated))

UtilInit == Init /\ config = [ocr |-> FALSE, discord |-> FALSE, sections |-> "all"]

UtilNext ==
    \/ \E imageExists, saveOk \in BOOLEAN : Call_convert_image_to_pdf(imageExists, saveOk)
    \/ \E image_paths \in PathLists, existing \in SUBSET Images, saveOk \in BOOLEAN :
          Call_combine_images_to_pdf(image_paths, existing, saveOk)
    \/ \E pdf_paths \in PathLists, existing \in SUBSET Images, run \in MergeRuns :
          Call_merge_pdfs(pdf_paths, existing, run)
    \/ \E imageExists, toolOk \in BOOLEAN : Call_process_image(imageExists, toolOk)
    \/ \E kind \in {"absent", "plain"}, run \in RecognitionRuns :
          Call_make_pdf_searchable([kind |-> kind, n |-> IF kind = "absent" THEN 0 ELSE 2], run)
    \/ \E webhookSet \in BOOLEAN, answer \in WebhookAnswers :
          Call_send_to_discord(webhookSet, answer)
    \/ \E webhookSet \in BOOLEAN, answer \in WebhookAnswers :
          Call_test_discord_webhook(webhookSet, answer)
    \/ \E config_file, default_file \in ConfigFiles, writable \in BOOLEAN :
          Call_load_config(config_file, default_file, writable)
    \/ \E protocol \in Protocols, ip \in Addresses, port \in Ports :
          BuildDevice(protocol, ip, port)
    \/ \E n \in 1..(MaxIndex - 1) : ListPages(n)
    \/ \E stored \in JsonObjects, updates \in RequestBodies, saveOk \in BOOLEAN :
          Call_update_config(stored, updates, saveOk)
    \/ \E updates \in RequestBodies, saveOk \in BOOLEAN :
          Call_update_config_again(updates, saveOk)
    \/ \E route \in Routes, oauth_config \in OAuthConfigs, is_authenticated \in BOOLEAN :
          Request(route, oauth_config, is_authenticated)

UtilSpec == UtilInit /\ [][UtilNext]_vars

----------------------------------------------------------------------------
\* Properties of the session store and of the capture workflows

Degraded == {"PDF (OCR failed)", "PDF (not searchable)"}

ToolFailures == {"ocr_failed", "convert_failed"}

\* C1: under every interleaving of the page scans of one session, K
\* successful scans leave exactly the pages 1..K, and no scan writes a page
\* file that another scan has written.
C1_ConcurrentIndexUnique ==
    /\ \A t \in Times : PageCallsInFlight(t) = {} => pages[t] = 1..succ[t]
    /\ \A c \in Calls : "overwrote" \notin call[c].obs

\* C2: when page scans do not overlap, the page files of a session are
\* exactly page_001 .. page_K, K the number of successful scans so far; the
\* k-th successful scan returns page_number k, and a failed scan takes no index.
C2_SequentialNumbering ==
    /\ \A t \in Times :
          (\A c \in Calls : call[c].pc # "sp_verify") => pages[t] = 1..succ[t]
    /\ (Returned("page") /\ ret.result.success)
          => ret.result.page_number = succ[ret.sid]

C2_FailedScanAfterTwoPages ==
    /\ Returned("page") /\ ~ret.result.success /\ "scan" \in ret.effects
    /\ succ[ret.sid] = 2 /\ pages[ret.sid] = {1, 2}

\* C3: a workflow whose recognition step fails, every other tool working
\* and the configuration complete, returns success with a degraded document
\* kind and a PDF at the returned path.
C3_RecognitionFailureKeepsOutput ==
    (/\ ret.pc = "returned" /\ ret.op \in {"single", "finish"}
     /\ "ocr_failed" \in ret.obs
     /\ ret.obs \cap {"convert_failed", "config_error"} = {})
       => /\ ret.result.success
          /\ ret.result.file_type \in Degraded
          /\ docs[ret.result.file_path].kind # "absent"

\* C4: a workflow whose conversion or assembly step fails returns
\* success=false with an error message.
C4_ConversionFailureAborts ==
    (/\ ret.pc = "returned" /\ ret.op \in {"single", "finish"}
     /\ "convert_failed" \in ret.obs)
       => ~ret.result.success /\ ret.result.error # ""

\* C5: when finish_multi_page_session returns success, the session
\* directory and every page file in it are gone.
C5_FinishDestroysSession ==
    (Returned("finish") /\ ret.result.success)
       => ret.sid \notin sessions /\ pages[ret.sid] = {}

C5_FinishedTwoPages ==
    Returned("finish") /\ ret.result.success /\ ret.result.page_count = 2

\* C6: finish_multi_page_session on an existing session without pages fails
\* with the empty-session error, writes no document, sends no notification
\* and leaves the directory in place.
C6_EmptySessionFails ==
    (Returned("finish") /\ "empty" \in ret.obs)
       => /\ ~ret.result.success
          /\ ret.result.error = "No pages found in session"
          /\ ret.effects = {}
          /\ "dir_kept" \in ret.obs => ret.sid \in sessions /\ pages[ret.sid] = {}

C6_EmptySessionFinished ==
    Returned("finish") /\ "empty" \in ret.obs /\ ret.sid \in sessions

\* C7: start, N >= 1 successful page scans one after the other, then finish
\* with every tool working and the configuration complete: success,
\* page_count = N, the document at multi_page_{ts}.pdf, the session
\* directory gone.
C7_SessionScenario ==
    (/\ Returned("finish")
     /\ ret.obs \cap ({"not_found", "empty", "config_error"} \cup ToolFailures) = {})
       => /\ ret.result.success
          /\ ret.scanned >= 1
          /\ ret.result.page_count = ret.scanned
          /\ ret.result.file_path = <<"multi_page", ret.ts>>
          /\ docs[<<"multi_page", ret.ts>>].kind # "absent"
          /\ docs[<<"multi_page", ret.ts>>].n = ret.scanned
          /\ ret.sid \notin sessions

C7_ThreePagesFinished ==
    /\ Returned("finish") /\ ret.result.success /\ ret.result.page_count = 3
    /\ ret.obs \cap ToolFailures = {}

\* C8: after a successful finish has destroyed a session id, every later
\* scan_page_for_session and finish_multi_page_session with that id fails
\* with 'Session not found'.
C8_NoResurrection ==
    (/\ ret.pc = "returned" /\ ret.op \in {"page", "finish"}
     /\ "after_destroy" \in ret.obs)
       => ~ret.result.success /\ ret.result.error = "Session not found"

\* C9: every start_multi_page_session returns the id of a session that did
\* not exist before, with an empty directory.
C9_FreshSession ==
    Returned("start") => "existed" \notin ret.obs /\ pages[ret.sid] = {}

\* C10: a page scan or a finish on a session id without a directory fails
\* with 'Session not found' and does nothing: no scan command, no
\* directory, page or document, no notification.
C10_SessionNotFound ==
    (/\ ret.pc = "returned" /\ ret.op \in {"page", "finish"}
     /\ "not_found" \in ret.obs)
       => /\ ~ret.result.success
          /\ ret.result.error = "Session not found"
          /\ ret.effects = {}
          /\ ret.sid \notin sessions

C10_UnknownSessionRefused ==
    /\ ret.pc = "returned" /\ ret.op \in {"page", "finish"}
    /\ "not_found" \in ret.obs /\ sessions # {}

\* C11: when finish_multi_page_session returns success=false for a session
\* whose directory existed when the call looked it up, the directory and
\* every page file the call found in it still exist.
C11_FailedFinishKeepsSession ==
    (Returned("finish") /\ ~ret.result.success /\ "not_found" \notin ret.obs)
       => ret.sid \in sessions /\ ret.pages \subseteq pages[ret.sid]

\* C12: every finish_multi_page_session that has listed the pages of a
\* non-empty session is followed by a state in which the session directory
\* is gone.
C12_FinalizationDestroys ==
    \A c \in Calls, t \in Times :
        (call[c].op = "finish" /\ call[c].pc = "fin_assemble" /\ call[c].sid = t)
            ~> (t \notin sessions)

\* C13: a finish of a one-page session ends with the document kind and the
\* written-or-not answer that the recognition/conversion stage of
\* scan_single_page gives, for every behaviour of the recognition and
\* conversion tools under which the finish does what it did.
C13_OnePageLikeSinglePage ==
    (Returned("finish") /\ Cardinality(ret.pages) = 1)
       => \A ocrOk, saveOk \in BOOLEAN :
             LET f == FinishOnePage(ret.ocr, TRUE, ocrOk, saveOk)
                 s == SingleRecognizeConvert(ret.ocr, TRUE, ocrOk, saveOk)
             IN  (/\ f.pdf_type = ret.pdf_type
                  /\ (f.wrote # "none") = ("doc" \in ret.effects))
                    => /\ s.pdf_type = ret.pdf_type
                       /\ (s.wrote # "none") = ("doc" \in ret.effects)

\* C14: a scan_single_page whose image file is not there after the
\* acquisition command returns 'Scan failed' with the command's output, and
\* has run no recognition, conversion or notification and written no document.
C14_SingleAcquisitionFailure ==
    (Returned("single") /\ "no_output" \in ret.obs)
       => /\ ~ret.result.success
          /\ ret.result.error = "Scan failed"
          /\ ret.result.details
          /\ ret.effects = {"scan"}
          /\ ret.result.file_path = NoPath

C14_FailedAfterProducedDocument ==
    /\ Returned("single") /\ "no_output" \in ret.obs
    /\ \E t \in Times : docs[<<"scan", t>>].kind # "absent"

\* C15: a scan_page_for_session whose page file is not there after the
\* acquisition command returns 'Scan failed' with the command's output and
\* has written no page: the next call computes the same index.
C15_PageAcquisitionFailure ==
    (Returned("page") /\ "no_output" \in ret.obs)
       => /\ ~ret.result.success
          /\ ret.result.error = "Scan failed"
          /\ ret.result.details
          /\ "page" \notin ret.effects
          /\ pages[ret.sid] = 1..(ret.page_num - 1)
          /\ NextPageNum(pages[ret.sid]) = ret.page_num

C15_FailedSecondPage ==
    /\ Returned("page") /\ "no_output" \in ret.obs
    /\ ret.page_num = 2 /\ pages[ret.sid] = {1}

\* C16: no invocation of the four operations ends with an exception that
\* reaches its caller.
C16_NoEscapingException == ret.pc # "raised"

\* C17: a workflow that reaches its notification step returns success, the
\* output path and the document kind it had before the step, whatever the
\* outcome of the notification; discord_notification is true exactly when
\* the webhook answered, and false when notification is disabled.
C17_NotificationNeverFails ==
    (/\ ret.pc = "returned" /\ ret.op \in {"single", "finish"}
     /\ ret.pdf_type # "" /\ "config_error" \notin ret.obs)
       => /\ ret.result.success
          /\ ret.result.file_path =
                <<IF ret.op = "single" THEN "scan" ELSE "multi_page", ret.ts>>
          /\ ret.result.file_type = ret.pdf_type
          /\ ret.result.discord_notification = ("notify" \in ret.effects)
          /\ ~ret.discord => ~ret.result.discord_notification

C17_UndeliveredNotification ==
    /\ Returned("finish") /\ ret.result.success
    /\ "notify_attempt" \in ret.effects /\ "notify" \notin ret.effects
    /\ ret.result.page_count = 2

\* C18: after make_pdf_searchable the temporary file {pdf}.temp.pdf does
\* not exist; the document is replaced only when the tool exited 0 and left
\* the temporary file, and after a failure it is the combined document as
\* it was.
C18_RecognitionInPlace ==
    \A c \in Calls :
        (/\ call[c].op = "finish" /\ call[c].pc = "fin_notify"
         /\ Cardinality(call[c].pages) > 1 /\ call[c].ocr
         /\ "convert_failed" \notin call[c].obs)
           => /\ "temp_left" \notin call[c].obs
              /\ "replaced" \in call[c].obs => "tool_ok" \in call[c].obs
              /\ "replaced" \in call[c].obs <=> call[c].pdf_type = "Searchable PDF"
              /\ docs[<<"multi_page", call[c].ts>>] =
                    [kind |-> IF "replaced" \in call[c].obs
                                THEN "searchable" ELSE "plain",
                     n |-> Cardinality(call[c].pages)]

C18_FailedRunCleaned ==
    \E c \in Calls :
        /\ call[c].op = "finish" /\ call[c].pc = "fin_notify"
        /\ {"temp_written", "ocr_failed"} \subseteq call[c].obs
        /\ docs[<<"multi_page", call[c].ts>>].kind = "plain"

\* C19: when scan_single_page returns after its acquisition wrote the
\* transient image, the image is gone.
C19_TransientImageRemoved ==
    (Returned("single") /\ "acquired" \in ret.obs) => ret.ts \notin tempImgs

\* C20: no scan_single_page or finish_multi_page_session writes its
\* document to a path at which a document already exists.
C20_DocumentWrittenOnce ==
    /\ "rewrote" \notin ret.obs
    /\ \A c \in Calls : "rewrote" \notin call[c].obs

----------------------------------------------------------------------------
\* Properties of the helper functions

\* C21: combine_images_to_pdf given a list with a path that is not on disk
\* returns the failure "Image not found" without opening an image and
\* without writing a document, wherever the missing path is in the list.
C21_CombineAllOrNothing ==
    (/\ util.fn = "combine_images_to_pdf"
     /\ Missing(util.arg.image_paths, util.arg.existing) # {})
       => /\ ~util.out.success
          /\ util.out.error = "Image not found"
          /\ ~util.out.opening
          /\ ~util.out.written
          /\ util.out.pages = <<>>

C21_LastPathMissing ==
    /\ util.fn = "combine_images_to_pdf"
    /\ Len(util.arg.image_paths) = MaxList
    /\ Missing(util.arg.image_paths, util.arg.existing) = {MaxList}
    /\ util.arg.saveOk
    /\ ~util.out.success

\* C22: combine_images_to_pdf given the empty list returns success=False
\* with an error and writes no document.
C22_CombineEmptyList ==
    (util.fn = "combine_images_to_pdf" /\ util.arg.image_paths = <<>>)
       => /\ ~util.out.success
          /\ util.out.error # ""
          /\ ~util.out.written

C22_EmptyListRefused ==
    /\ util.fn = "combine_images_to_pdf"
    /\ util.arg.image_paths = <<>>
    /\ util.arg.saveOk /\ util.arg.existing = Images
    /\ util.out.error = "No images provided"

\* C23: a successful combine_images_to_pdf of a non-empty list of N images
\* on disk writes one document whose i-th page is the i-th image of the
\* list, and reports page_count = N; a successful convert_image_to_pdf
\* writes a document of one page.
C23_PagesFollowInput ==
    /\ (/\ util.fn = "combine_images_to_pdf"
        /\ util.arg.image_paths # <<>>
        /\ Missing(util.arg.image_paths, util.arg.existing) = {}
        /\ util.out.success)
          => /\ util.out.written
             /\ util.out.page_count = Len(util.arg.image_paths)
             /\ Len(util.out.pages) = Len(util.arg.image_paths)
             /\ \A i \in 1..Len(util.arg.image_paths) :
                    util.out.pages[i] = util.arg.image_paths[i]
    /\ (util.fn = "convert_image_to_pdf" /\ util.out.success)
          => util.out.written /\ util.out.pages = 1

C23_UnsortedListCombined ==
    /\ util.fn = "combine_images_to_pdf"
    /\ Len(util.arg.image_paths) = MaxList
    /\ util.arg.image_paths[1] > util.arg.image_paths[2]
    /\ util.arg.image_paths[1] = util.arg.image_paths[MaxList]
    /\ util.out.success

\* C24: convert_image_to_pdf, process_image, make_pdf_searchable and
\* merge_pdfs given an input path that is not on disk return success=False
\* with an error, start no external tool and write no file.
C24_MissingInputRefused ==
    /\ (util.fn \in {"convert_image_to_pdf", "process_image"} /\ ~util.arg.imageExists)
          => ~util.out.success /\ util.out.error # "" /\ ~util.out.written
    /\ (util.fn = "process_image" /\ ~util.arg.imageExists) => ~util.out.ran
    /\ (util.fn = "make_pdf_searchable" /\ util.arg.pdf.kind = "absent")
          => /\ ~util.out.success /\ util.out.error # ""
             /\ ~util.out.ran /\ ~util.out.replaced /\ ~util.out.temp
             /\ util.out.pdf = util.arg.pdf
    /\ (/\ util.fn = "merge_pdfs"
        /\ Missing(util.arg.pdf_paths, util.arg.existing) # {})
          => /\ ~util.out.success /\ util.out.error # ""
             /\ ~util.out.ran /\ ~util.out.written

C24_MissingImageWithWorkingTool ==
    /\ util.fn = "process_image"
    /\ ~util.arg.imageExists /\ util.arg.toolOk
    /\ util.out.error = "Input image not found"

\* C25: merge_pdfs on inputs that are all on disk succeeds exactly when
\* pdftk exited with status 0 and the output file exists; a run that exits
\* with another status or leaves no output is reported as "PDF merge
\* failed", a run that times out as "PDF merge timed out".
C25_MergeFailureAndTimeout ==
    (/\ util.fn = "merge_pdfs"
     /\ util.arg.pdf_paths # <<>>
     /\ Missing(util.arg.pdf_paths, util.arg.existing) = {})
       => /\ util.out.success <=> (util.arg.run.exit = "zero" /\ util.arg.run.output)
          /\ util.arg.run.exit = "timeout"
                => ~util.out.success /\ util.out.error = "PDF merge timed out"
          /\ (\/ util.arg.run.exit = "nonzero"
              \/ util.arg.run.exit = "zero" /\ ~util.arg.run.output)
                => ~util.out.success /\ util.out.error = "PDF merge failed"

C25_MergeTimedOut ==
    /\ util.fn = "merge_pdfs"
    /\ Len(util.arg.pdf_paths) = 2
    /\ util.arg.run.exit = "timeout"
    /\ util.out.error = "PDF merge timed out"

\* C26: sorting the names of two consecutive pages n and n + 1 as strings
\* gives page n first.
C26_NameOrderIsIndexOrder ==
    util.fn = "sorted"
       => \E n \in util.arg.pages :
              util.arg.pages = {n, n + 1} /\ util.out = <<n, n + 1>>

\* C27: scan_single_page, scan_page_for_session and test_scanner_connection
\* build the same device locator: escl:https://{ip}:{port} for the protocol
\* "escl", the hpaio network locator with {ip} for every other protocol,
\* whatever the address is.
C27_DeviceTable ==
    util.fn = "device"
       => /\ util.out.single = util.out.page
          /\ util.out.page = util.out.test
          /\ util.arg.protocol = "escl"
                => util.out.test = <<"escl:https://", util.arg.ip, ":", util.arg.port>>
          /\ util.arg.protocol # "escl"
                => util.out.test = <<"hpaio:/net/DeskJet_2700_series?ip=", util.arg.ip>>

C27_UnknownProtocolOddAddress ==
    /\ util.fn = "device"
    /\ util.arg.protocol = "airscan"
    /\ util.arg.ip = "printer.local; reboot"
    /\ util.out.test[1] = "hpaio:/net/DeskJet_2700_series?ip="

\* C28: every invocation of scan_single_page, scan_page_for_session and
\* finish_multi_page_session that has started eventually ends and leaves
\* its thread free, when every step of a handler that can be taken is
\* eventually taken (hp-scan ends, ocrmypdf and the webhook end or time out).
C28_EveryRequestReturns ==
    \A c \in Calls : Running(c) ~> (call[c].pc = "idle")

C28_FinishReturnedAfterFailedRecognition ==
    /\ Returned("finish")
    /\ {"temp_written", "ocr_failed"} \subseteq ret.obs
    /\ \A c \in Calls : ~Running(c)

\* C29: given an empty webhook URL, send_to_discord returns False and
\* test_discord_webhook returns success=False with an error, and neither
\* calls requests.post.
C29_EmptyWebhookRefused ==
    /\ (util.fn = "send_to_discord" /\ ~util.arg.webhookSet)
          => ~util.out.result /\ util.out.posts = 0
    /\ (util.fn = "test_discord_webhook" /\ ~util.arg.webhookSet)
          => ~util.out.success /\ util.out.error # "" /\ util.out.posts = 0

C29_EmptyWebhookReachableServer ==
    /\ util.fn = "test_discord_webhook"
    /\ ~util.arg.webhookSet /\ util.arg.answer = "204"
    /\ util.out.error = "Webhook URL is empty"

\* C30: load_config called when config.json does not exist returns a
\* configuration with the sections scanner, storage, ocr and discord, a
\* protocol of escl or hpaio, an integer port and resolution, a boolean
\* ocr.enabled, an ocr.language, an integer ocr.optimize and a non-empty
\* list of storage categories.
C30_DefaultConfigurationShape ==
    (/\ util.fn = "load_config"
     /\ util.arg.config_file.state = "absent"
     /\ util.arg.default_file.state = "absent")
       => LET cfg == util.out.config
          IN  /\ {"scanner", "storage", "ocr", "discord"} \subseteq DOMAIN cfg
              /\ cfg.scanner.protocol \in {"escl", "hpaio"}
              /\ cfg.scanner.port \in Int
              /\ cfg.scanner.resolution \in Int
              /\ cfg.ocr.enabled \in BOOLEAN
              /\ "language" \in DOMAIN cfg.ocr
              /\ "optimize" \in DOMAIN cfg.ocr /\ cfg.ocr.optimize \in Int
              /\ Len(cfg.storage.categories) > 0

----------------------------------------------------------------------------
\* Properties of the order of steps, of concurrent requests and of the
\* configuration

\* C31: a step that removes a session directory is the last step of a
\* finish_multi_page_session on that session which has assembled its
\* document (and run the recognition of it, when there is one) and has
\* finished its notification attempt; an invocation that is assembling,
\* recognizing or notifying has not removed the directory.
C31_DestroyComesLast ==
    [][/\ \A t \in Times :
             (t \in sessions /\ t \notin sessions')
                => \E c \in Calls :
                      /\ call[c].op = "finish" /\ call[c].sid = t
                      /\ call[c].pc = "fin_cleanup" /\ call'[c].pc = "idle"
                      /\ call[c].pdf_type # ""
                      /\ call[c].discord => "notify_attempt" \in call[c].effects
       /\ \A c \in Calls :
             /\ (call'[c].pc = "fin_recognize" /\ call[c].pc # "fin_recognize")
                   => call[c].pc = "fin_assemble"
             /\ (call'[c].pc = "fin_notify" /\ call[c].pc # "fin_notify")
                   => call[c].pc \in {"fin_assemble", "fin_recognize"}
             /\ (call'[c].pc = "fin_cleanup" /\ call[c].pc # "fin_cleanup")
                   => call[c].pc = "fin_notify"
             /\ call'[c].pc \in {"fin_assemble", "fin_recognize", "fin_notify", "fin_cleanup"}
                   => "rmtree" \notin call'[c].effects]_vars

C31_DestroyedAfterRecognitionAndNotification ==
    /\ Returned("finish") /\ "rmtree" \in ret.effects
    /\ "replaced" \in ret.obs
    /\ "notify" \in ret.effects
    /\ ret.sid \notin sessions

\* C32: the document kind a successful scan_single_page or
\* finish_multi_page_session reports is the searchable kind exactly when
\* recognition was enabled, ran and succeeded, the plain kind exactly when
\* recognition was disabled, and a degraded kind exactly when recognition
\* was enabled and failed.
C32_KindFollowsRecognition ==
    (/\ ret.pc = "returned" /\ ret.op \in {"single", "finish"}
     /\ ret.result.success)
       => /\ ret.result.file_type = "Searchable PDF"
                <=> (ret.ocr /\ ret.obs \cap ToolFailures = {})
          /\ ret.result.file_type = "PDF" <=> ~ret.ocr
          /\ ret.result.file_type \in Degraded
                <=> (ret.ocr /\ "ocr_failed" \in ret.obs)

\* C33: when a finish_multi_page_session removes a session directory in
\* which every page file comes from a scan_page_for_session that has
\* returned success, and every tool of the finish has worked, the page files
\* removed are the pages it assembled and their number is the page_count it
\* returns.
C33_NoPageLostAtFinish ==
    [][\A c \in Calls :
          (/\ call[c].op = "finish" /\ call[c].pc = "fin_cleanup"
           /\ call'[c].pc = "idle"
           /\ call[c].sid \in sessions /\ call[c].sid \notin sessions'
           /\ PageCallsInFlight(call[c].sid) = {}
           /\ call[c].obs \cap ToolFailures = {})
             => /\ pages[call[c].sid] = call[c].pages
                /\ ret'.result.page_count = Cardinality(pages[call[c].sid])]_vars

\* C34: of the finish_multi_page_session invocations that work on one
\* session at the same time, at most one writes a document, at most one
\* sends a notification, and when one has returned success no other has
\* written a document or sent a notification.
C34_FinalizedOnce ==
    /\ \A c, d \in Calls :
          (/\ c # d
           /\ call[c].op = "finish" /\ call[d].op = "finish"
           /\ call[c].sid = call[d].sid)
             => /\ ~("doc" \in call[c].effects /\ "doc" \in call[d].effects)
                /\ ~("notify" \in call[c].effects /\ "notify" \in call[d].effects)
    /\ \A c \in Calls :
          (/\ Returned("finish") /\ ret.result.success
           /\ call[c].op = "finish" /\ call[c].sid = ret.sid)
             => call[c].effects \cap {"doc", "notify"} = {}

\* C35: a scan_single_page or finish_multi_page_session that returns
\* success=false has sent no notification and has written no document.
C35_FailureWithoutEffect ==
    (/\ ret.pc = "returned" /\ ret.op \in {"single", "finish"}
     /\ ~ret.result.success)
       => ret.effects \cap {"doc", "notify"} = {}

\* C36: when the scan_page_for_session calls on a session do not overlap,
\* the k-th successful call since the session was created returns
\* page_number = total_pages = k.
C36_PageNumberIsTotal ==
    (Returned("page") /\ ret.result.success)
       => /\ ret.result.page_number = ret.result.total_pages
          /\ ret.result.total_pages = succ[ret.sid]

\* C37: a scan_single_page that has passed its acquisition check works on
\* the image its own acquisition wrote; while an invocation whose
\* acquisition wrote the transient image is in progress, the image exists,
\* and no other invocation in progress has written to the same path.
C37_TransientImagePrivate ==
    /\ \A c \in Calls :
          (call[c].op = "single" /\ call[c].pc \in {"ss_convert", "ss_notify", "ss_cleanup"})
             => "acquired" \in call[c].obs
    /\ \A c \in Calls :
          (call[c].op = "single" /\ Running(c) /\ "acquired" \in call[c].obs)
             => call[c].ts \in tempImgs
    /\ \A c, d \in Calls :
          (/\ c # d
           /\ call[c].op = "single" /\ Running(c) /\ "acquired" \in call[c].obs
           /\ call[d].op = "single" /\ Running(d) /\ "acquired" \in call[d].obs)
             => call[c].ts # call[d].ts

\* C38: update_config merges the updates into the stored configuration key
\* by key: a stored key the updates do not name keeps its value, at the top
\* level and inside a section the updates name with an object; a key the
\* updates name takes their value once the file is saved; no other key
\* appears; and a call that repeats the updates saved by the call before it
\* leaves the stored configuration as that call left it.
C38_Merged ==
    (util.fn = "update_config") =>
        LET d == util.arg.stored
            a == util.out.stored
            saved == util.out.result
            u == IF util.arg.updates.dict THEN util.arg.updates.items ELSE <<>>
            nested(k) == k \in DOMAIN d /\ k \in DOMAIN u /\ d[k].dict /\ u[k].dict
        IN  /\ saved => ~util.out.raised /\ util.arg.updates.dict /\ util.arg.saveOk
            /\ ~saved => a = d
            /\ DOMAIN a = DOMAIN d \cup (IF saved THEN DOMAIN u ELSE {})
            /\ \A k \in DOMAIN d \ DOMAIN u : a[k] = d[k]
            /\ \A k \in DOMAIN d \cap DOMAIN u :
                  nested(k) =>
                     /\ a[k].dict
                     /\ DOMAIN a[k].items
                           = DOMAIN d[k].items
                               \cup (IF saved THEN DOMAIN u[k].items ELSE {})
                     /\ \A j \in DOMAIN d[k].items \ DOMAIN u[k].items :
                           a[k].items[j] = d[k].items[j]
            /\ saved =>
                  \A k \in DOMAIN u :
                     IF nested(k)
                       THEN \A j \in DOMAIN u[k].items : a[k].items[j] = u[k].items[j]
                       ELSE a[k] = u[k]

C38_RepeatChangesNothing ==
    (/\ util.fn = "update_config" /\ util'.fn = "update_config"
     /\ util'.arg.calls = util.arg.calls + 1
     /\ util.out.result /\ util'.out.result
     /\ util'.arg.updates = util.arg.updates)
       => util'.out.stored = util.out.stored

C39_GuardedByAuthentication ==
    /\ \A route \in Routes :
          route.endpoint \in {"api_scan_single", "api_start_multi", "api_scan_page",
                              "api_finish_multi", "api_printer_list", "api_print_file",
                              "api_get_settings", "api_update_settings",
                              "api_test_scanner", "api_test_discord", "download_file"}
             => route.wrapped
    /\ (util.fn = "request" /\ util.arg.route.wrapped) =>
          /\ (util.arg.oauth_config = "true" /\ ~util.arg.is_authenticated)
                => ~util.out.ran /\ util.out.response = "unauthorized"
          /\ util.arg.oauth_config # "true"
                => util.out.ran /\ ~util.out.checked

C39_ScanRefused ==
    /\ util.fn = "request"
    /\ util.arg.route = [endpoint |-> "api_scan_single", wrapped |-> TRUE]
    /\ util.arg.oauth_config = "true" /\ ~util.arg.is_authenticated
    /\ ~util.out.ran /\ util.out.checked

====
